---- MODULE Spec2Model ----
(***************************************************************************)
(* Model of the cfyTracker price tracker: the scrape-product edge function *)
(* (tracking request), the update-prices edge function (hourly sweep with  *)
(* its reconcile step, checkPriceAlerts and sendStockAlert) and the alert  *)
(* dialog's create / toggle / delete handlers, over the products and       *)
(* price_alerts tables.                                                    *)
(*                                                                         *)
(* Time is counted in hours.  A handler is cut at its awaits: a sweep is   *)
(* the step that reads the stale rows, one step per item of the loop, and  *)
(* the step that returns the summary; a tracking request is its checks and *)
(* then its fetch and insert.  Every step leaves in `out` what it          *)
(* returned or did (response, notifications handed to the mail API), so    *)
(* that `out` always describes the step taken last.                        *)
(*                                                                         *)
(* Not modelled: the display-only fields of a row (title, discount,        *)
(* condition, storage, ram, color, image_url, updated_at), the removal of  *)
(* a product, and storage calls whose result the code never looks at (the  *)
(* alert deactivation update is taken to succeed).                         *)
(***************************************************************************)
EXTENDS Integers, Sequences, FiniteSets, TLC

VARIABLES now, products, alerts, alertSeq, sweeps, tracking, out

vars == <<now, products, alerts, alertSeq, sweeps, tracking, out>>

(* ------------------------------ bounds -------------------------------- *)

\* At most MaxProducts rows are ever inserted by overlapping requests.
MaxProducts == 3

\* The clock stops at MaxTime hours.
MaxTime == 4

\* At most MaxAlerts alerts are ever created.
MaxAlerts == 2

(* ------------------------- program constants -------------------------- *)

\* update-prices/index.ts:33, 60 * 60 * 1000 ms; the model's clock counts hours.
OneHour == 1

\* update-prices/index.ts:758-763, the out-of-stock placeholder prices.
FallbackMrp == 50000
FallbackSale == 45000
MrpOffset == 5000

(* ------------------------------ inputs -------------------------------- *)

Users == {"u1", "u2"}

\* A URL is the sequence of its pieces; includes() looks for a piece.
UrlProduct == <<"https://", "www.", "cashify.in", "/buy-refurbished", "/phone">>
UrlOther == <<"https://", "www.", "example.com", "/phone">>
UrlEmpty == << >>
Urls == {UrlProduct, UrlOther, UrlEmpty}

Includes(url, piece) == \E i \in 1..Len(url) : url[i] = piece

\* A page of the supported host that is not a product page, and a URL of
\* another host that carries the text cashify.in in its query.
UrlSellPage == <<"https://", "www.", "cashify.in", "/sell-old-phone">>
UrlLookalike == <<"https://", "example.com", "/?from=", "cashify.in">>
MoreUrls == Urls \cup {UrlSellPage, UrlLookalike}

IsPathPiece(piece) ==
    piece \in {"/buy-refurbished", "/phone", "/sell-old-phone", "/?from="}

\* new URL(url).hostname: the pieces between the scheme and the path.
Hostname(url) ==
    IF url = << >> THEN << >>
    ELSE LET end == CHOOSE i \in 2..(Len(url) + 1) :
                      /\ i = Len(url) + 1 \/ IsPathPiece(url[i])
                      /\ \A j \in 2..(i - 1) : ~IsPathPiece(url[j])
         IN  SubSeq(url, 2, end - 1)

\* The form's check before it posts the URL to scrape-product.
validateCashifyUrl(url) ==
    /\ url # << >>
    /\ Hostname(url) = <<"www.", "cashify.in">>
    /\ Includes(url, "/buy-refurbished")

\* What a request carries as authorization: nothing, a token the auth
\* service rejects, or the token of a user.
NoHeader == "no-header"
BadToken == "bad-token"

\* A fetched page, as far as the extractor's patterns see it: whether the
\* HTTP response was ok, whether the out-of-stock marker matches, and the
\* number the list-price and the sale-price cascades pick (0: no match).
Page(ok, oos, mrp, sale) ==
    [http_ok |-> ok, oos |-> oos, mrp |-> mrp, sale |-> sale]

PageHttpError == Page(FALSE, FALSE, 0, 0)
PageNoPrices == Page(TRUE, FALSE, 0, 0)
PageLow == Page(TRUE, FALSE, 50000, 27000)
PageHigh == Page(TRUE, FALSE, 50000, 29000)
PageOutOfStock == Page(TRUE, TRUE, 0, 27000)

Pages == {PageHttpError, PageNoPrices, PageLow, PageHigh, PageOutOfStock}

\* Target prices a user types into the alert dialog.
TargetPrices == {0, 25000, 30000}

\* What happens to one notification: the address is found and the mail API
\* accepts the mail, the address is found and the mail API call throws, or
\* auth.admin.getUserById yields no email.
Deliveries == {"sent", "send_throws", "no_email"}

(* ----------------------------- helpers -------------------------------- *)

Last(s) == s[Len(s)]

IsPrefix(s, t) == Len(s) <= Len(t) /\ SubSeq(t, 1, Len(s)) = s

Ids(q) == { q[i].id : i \in 1..Len(q) }

\* All orders in which the rows of the set S can come back from a select.
Orders(S) ==
    { q \in [1..Cardinality(S) -> S] : \A r \in S : \E i \in DOMAIN q : q[i] = r }

(* ---------------------------- extractor ------------------------------- *)

Thrown == [ok |-> FALSE, mrp |-> 0, sale_price |-> 0, is_out_of_stock |-> FALSE]

\* Variant of ExtractPrices: the check of lines 767-770 left out.
ExtractPrices_NoThrow(page) ==
    LET isOutOfStock == page.oos
        mrp0  == page.mrp
        sale0 == IF isOutOfStock THEN 0 ELSE page.sale
        mrp1  == IF isOutOfStock /\ mrp0 = 0 /\ sale0 = 0 THEN FallbackMrp
                 ELSE IF isOutOfStock /\ sale0 # 0 /\ mrp0 = 0 THEN sale0 + MrpOffset
                 ELSE mrp0
        sale1 == IF isOutOfStock /\ mrp0 = 0 /\ sale0 = 0 THEN FallbackSale
                 ELSE IF isOutOfStock /\ sale0 = 0
                      THEN (IF mrp0 # 0 THEN mrp0 ELSE FallbackSale)
                 ELSE sale0
    IN  IF ~page.http_ok THEN Thrown
        ELSE [ok |-> TRUE,
              mrp |-> IF mrp1 # 0 THEN mrp1
                      ELSE IF sale1 # 0 THEN sale1 ELSE FallbackMrp,
              sale_price |-> IF sale1 # 0 THEN sale1
                             ELSE IF mrp1 # 0 THEN mrp1 ELSE FallbackSale,
              is_out_of_stock |-> isOutOfStock]

\* Variant of ExtractPrices: the backfill of lines 755-765 left out.
ExtractPrices_NoBackfill(page) ==
    LET isOutOfStock == page.oos
        mrp0  == page.mrp
        sale0 == IF isOutOfStock THEN 0 ELSE page.sale
        mrp1  == mrp0
        sale1 == sale0
    IN  IF ~page.http_ok THEN Thrown
        ELSE IF mrp1 = 0 /\ sale1 = 0 THEN Thrown
        ELSE [ok |-> TRUE,
              mrp |-> IF mrp1 # 0 THEN mrp1
                      ELSE IF sale1 # 0 THEN sale1 ELSE FallbackMrp,
              sale_price |-> IF sale1 # 0 THEN sale1
                             ELSE IF mrp1 # 0 THEN mrp1 ELSE FallbackSale,
              is_out_of_stock |-> isOutOfStock]

\* Variant of ExtractPrices: the sale price read on out-of-stock pages too.
ExtractPrices_ReadsSale(page) ==
    LET isOutOfStock == page.oos
        mrp0  == page.mrp
        sale0 == page.sale
        mrp1  == IF isOutOfStock /\ mrp0 = 0 /\ sale0 = 0 THEN FallbackMrp
                 ELSE IF isOutOfStock /\ sale0 # 0 /\ mrp0 = 0 THEN sale0 + MrpOffset
                 ELSE mrp0
        sale1 == IF isOutOfStock /\ mrp0 = 0 /\ sale0 = 0 THEN FallbackSale
                 ELSE IF isOutOfStock /\ sale0 = 0
                      THEN (IF mrp0 # 0 THEN mrp0 ELSE FallbackSale)
                 ELSE sale0
    IN  IF ~page.http_ok THEN Thrown
        ELSE IF mrp1 = 0 /\ sale1 = 0 THEN Thrown
        ELSE [ok |-> TRUE,
              mrp |-> IF mrp1 # 0 THEN mrp1
                      ELSE IF sale1 # 0 THEN sale1 ELSE FallbackMrp,
              sale_price |-> IF sale1 # 0 THEN sale1
                             ELSE IF mrp1 # 0 THEN mrp1 ELSE FallbackSale,
              is_out_of_stock |-> isOutOfStock]

\* The prices scrapeProduct ends with (both functions share this code).
ExtractPrices(page) ==
    LET isOutOfStock == page.oos
        mrp0  == page.mrp
        sale0 == IF isOutOfStock THEN 0 ELSE page.sale
        mrp1  == IF isOutOfStock /\ mrp0 = 0 /\ sale0 = 0 THEN FallbackMrp
                 ELSE IF isOutOfStock /\ sale0 # 0 /\ mrp0 = 0 THEN sale0 + MrpOffset
                 ELSE mrp0
        sale1 == IF isOutOfStock /\ mrp0 = 0 /\ sale0 = 0 THEN FallbackSale
                 ELSE IF isOutOfStock /\ sale0 = 0
                      THEN (IF mrp0 # 0 THEN mrp0 ELSE FallbackSale)
                 ELSE sale0
    IN  IF ~page.http_ok THEN Thrown
        ELSE IF mrp1 = 0 /\ sale1 = 0 THEN Thrown
        ELSE [ok |-> TRUE,
              mrp |-> IF mrp1 # 0 THEN mrp1
                      ELSE IF sale1 # 0 THEN sale1 ELSE FallbackMrp,
              sale_price |-> IF sale1 # 0 THEN sale1
                             ELSE IF mrp1 # 0 THEN mrp1 ELSE FallbackSale,
              is_out_of_stock |-> isOutOfStock]

\* update-prices: the catch rethrows.
scrapeProduct(page) == ExtractPrices(page)

\* scrape-product: the catch returns placeholder data, in stock.
scrapeProductOrFallback(page) ==
    IF ExtractPrices(page).ok THEN ExtractPrices(page)
    ELSE [ok |-> TRUE, mrp |-> FallbackMrp, sale_price |-> FallbackSale,
          is_out_of_stock |-> FALSE]

(* ------------------------------ state --------------------------------- *)

SweepIds == {1}

Idle == [pc |-> "idle", start |-> 0, queue |-> << >>, total |-> 0,
         updatedCount |-> 0, errors |-> << >>]

\* The scrape-product invocations that can be in flight at once, and what
\* one of them holds between its checks and its insert.
RequestIds == {1, 2}

NoRequest == [pc |-> "idle", user |-> "", url |-> << >>]

NoOut == [kind |-> "none"]

Init ==
    /\ now = 0
    /\ products = << >>
    /\ alerts = << >>
    /\ alertSeq = 0
    /\ sweeps = [s \in SweepIds |-> Idle]
    /\ tracking = [r \in RequestIds |-> NoRequest]
    /\ out = NoOut

(* ------------------------------ clock --------------------------------- *)

Tick ==
    /\ now < MaxTime
    /\ now' = now + 1
    /\ out' = [kind |-> "tick"]
    /\ UNCHANGED <<products, alerts, alertSeq, sweeps, tracking>>

(* ---------------------- scrape-product handler ------------------------ *)

Respond(handler, status) == [kind |-> handler, status |-> status]

NewProduct(id, user, url, scrapedData) ==
    [id |-> id, user_id |-> user, url |-> url,
     mrp |-> scrapedData.mrp,
     sale_price |-> scrapedData.sale_price,
     is_out_of_stock |-> scrapedData.is_out_of_stock,
     price_history |-> << [price |-> scrapedData.sale_price, checked_at |-> now] >>,
     last_checked |-> now]

\* The whole handler; the page is fetched, and the insert attempted, only
\* after the checks of lines 56-124.
TrackProduct(auth, url, pages) ==
    LET existing == { p \in DOMAIN products :
                        products[p].user_id = auth /\ products[p].url = url }
        id == Len(products) + 1
    IN  /\ UNCHANGED <<now, alerts, alertSeq, sweeps, tracking>>
        /\ IF url = UrlEmpty \/ ~Includes(url, "cashify.in")
           THEN /\ out' = Respond("track", 400)
                /\ UNCHANGED products
           ELSE IF auth \notin Users
           THEN /\ out' = Respond("track", 401)
                /\ UNCHANGED products
           ELSE IF Cardinality(existing) = 1
           THEN /\ out' = Respond("track", 400)
                /\ UNCHANGED products
           ELSE \E page \in pages, dbOk \in BOOLEAN :
                  IF ~dbOk
                  THEN /\ out' = Respond("track", 500)
                       /\ UNCHANGED products
                  ELSE /\ products' =
                            Append(products,
                                   NewProduct(id, auth, url,
                                              scrapeProductOrFallback(page)))
                       /\ out' = [kind |-> "track", status |-> 200, id |-> id]

\* What a scrape-product invocation answers, with what it was asked.
TrackLog(r, auth, url, status, existing) ==
    [kind |-> "track", request |-> r, status |-> status, user |-> auth,
     url |-> url, existing |-> existing, fetched |-> FALSE, mails |-> {}]

\* Variant of TrackMails: a confirmation mail to the requesting user.
TrackMails_Confirmation(user, id) ==
    { [type |-> "tracking_started", alert |-> 0, product |-> id,
       to |-> user, delivered |-> TRUE] }

\* Lines 162-164: the mails the handler sends once the row is inserted.
TrackMails(user, id) == {}

\* Lines 54-124: the checks of a request, up to the await of the fetch.
\* .single() yields a row only when exactly one row matches.
TrackCheck(r, auth, url) ==
    LET existing == { p \in DOMAIN products :
                        products[p].user_id = auth /\ products[p].url = url }
        inFlight == { q \in RequestIds : tracking[q].pc = "fetching" }
    IN  /\ tracking[r].pc = "idle"
        /\ Len(products) + Cardinality(inFlight) < MaxProducts
        /\ UNCHANGED <<now, products, alerts, alertSeq, sweeps>>
        /\ IF url = UrlEmpty \/ ~Includes(url, "cashify.in")
           THEN /\ out' = TrackLog(r, auth, url, 400, 0)
                /\ UNCHANGED tracking
           ELSE IF auth \notin Users
           THEN /\ out' = TrackLog(r, auth, url, 401, 0)
                /\ UNCHANGED tracking
           ELSE IF Cardinality(existing) = 1
           THEN /\ out' = TrackLog(r, auth, url, 400, 1)
                /\ UNCHANGED tracking
           ELSE /\ tracking' = [tracking EXCEPT ![r] =
                                  [pc |-> "fetching", user |-> auth, url |-> url]]
                /\ out' = [kind |-> "track_checked", request |-> r,
                           user |-> auth, url |-> url,
                           existing |-> Cardinality(existing)]

\* Lines 126-176: the page is fetched and the row inserted.
TrackInsert(r, pages) ==
    LET req == tracking[r]
        id == Len(products) + 1
    IN  /\ req.pc = "fetching"
        /\ tracking' = [tracking EXCEPT ![r] = NoRequest]
        /\ UNCHANGED <<now, alerts, alertSeq, sweeps>>
        /\ \E page \in pages, dbOk \in BOOLEAN :
             LET scrapedData == scrapeProductOrFallback(page)
                 log == [kind |-> "track", request |-> r,
                         status |-> IF dbOk THEN 200 ELSE 500,
                         user |-> req.user, url |-> req.url,
                         existing |-> 0, fetched |-> TRUE, page |-> page,
                         scraped |-> scrapedData,
                         id |-> IF dbOk THEN id ELSE 0,
                         mails |-> IF dbOk THEN TrackMails(req.user, id)
                                   ELSE {}]
             IN  /\ out' = log
                 /\ products' =
                       IF dbOk
                       THEN Append(products,
                                   NewProduct(id, req.user, req.url, scrapedData))
                       ELSE products

(* ----------------------- update-prices handler ------------------------ *)


\* Variant of IsStale: the boundary included (<= for <).
IsStale_Inclusive(product, t) == product.last_checked <= t - OneHour

\* .lt('last_checked', oneHourAgo), oneHourAgo being t - one hour.
IsStale(product, t) == product.last_checked < t - OneHour

StaleRows(t) ==
    { products[p] : p \in { q \in DOMAIN products : IsStale(products[q], t) } }

\* Lines 32-55: the sweep reads the stale rows once; the loop then works on
\* these copies.
SweepStart(s) ==
    /\ sweeps[s].pc = "idle"
    /\ UNCHANGED <<now, products, alerts, alertSeq, tracking>>
    /\ \E fetchOk \in BOOLEAN :
         IF ~fetchOk
         THEN /\ out' = [kind |-> "sweep_response", sweep |-> s, status |-> 500]
              /\ UNCHANGED sweeps
         ELSE IF StaleRows(now) = {}
         THEN /\ out' = [kind |-> "sweep_response", sweep |-> s, status |-> 200,
                         updated |-> 0, total |-> 0, errors |-> << >>,
                         none |-> TRUE]
              /\ UNCHANGED sweeps
         ELSE \E q \in Orders(StaleRows(now)) :
                /\ sweeps' = [sweeps EXCEPT ![s] =
                                [pc |-> "running", start |-> now, queue |-> q,
                                 total |-> Len(q), updatedCount |-> 0,
                                 errors |-> << >>]]
                /\ out' = [kind |-> "sweep_start", sweep |-> s]


\* Variant of LastPrice: the first entry of the history instead of the last.
LastPrice_First(product) ==
    IF Len(product.price_history) > 0 THEN product.price_history[1].price ELSE 0

\* Lines 66-70: the price of the last entry of the history, 0 when empty.
LastPrice(product) ==
    IF Len(product.price_history) > 0 THEN Last(product.price_history).price ELSE 0

\* Line 76.
PriceChanged(product, scrapedData) ==
    ~scrapedData.is_out_of_stock /\ LastPrice(product) # scrapedData.sale_price


\* Variant of NewPriceHistory: the in-stock test of line 76 left out.
NewPriceHistory_NoStockGuard(product, scrapedData, t) ==
    IF LastPrice(product) # scrapedData.sale_price
    THEN Append(product.price_history,
                [price |-> scrapedData.sale_price, checked_at |-> t])
    ELSE product.price_history

\* Lines 73-86.
NewPriceHistory(product, scrapedData, t) ==
    IF PriceChanged(product, scrapedData)
    THEN Append(product.price_history,
                [price |-> scrapedData.sale_price, checked_at |-> t])
    ELSE product.price_history

\* Line 89.
StockStatusChanged(product, scrapedData) ==
    product.is_out_of_stock # scrapedData.is_out_of_stock


\* Variant of UpdatedRow: price_history left out of the update.
UpdatedRow_KeepsHistory(row, product, scrapedData, t) ==
    [row EXCEPT !.mrp = scrapedData.mrp,
                !.sale_price = scrapedData.sale_price,
                !.is_out_of_stock = scrapedData.is_out_of_stock,
                !.last_checked = t]

\* Variant of UpdatedRow: last_checked left out of the update.
UpdatedRow_NoTimestamp(row, product, scrapedData, t) ==
    [row EXCEPT !.mrp = scrapedData.mrp,
                !.sale_price = scrapedData.sale_price,
                !.is_out_of_stock = scrapedData.is_out_of_stock,
                !.price_history =
                    IF ~scrapedData.is_out_of_stock
                       /\ LastPrice(product) # scrapedData.sale_price
                    THEN Append(product.price_history,
                                [price |-> scrapedData.sale_price,
                                 checked_at |-> t])
                    ELSE product.price_history]

\* Lines 95-112: the row as the update leaves it.
UpdatedRow(row, product, scrapedData, t) ==
    [row EXCEPT !.mrp = scrapedData.mrp,
                !.sale_price = scrapedData.sale_price,
                !.is_out_of_stock = scrapedData.is_out_of_stock,
                !.price_history = NewPriceHistory(product, scrapedData, t),
                !.last_checked = t]


\* Variant of RowAfterCatch: the catch stamps last_checked.
RowAfterCatch_Touch(row, t) == [row EXCEPT !.last_checked = t]

\* Lines 136-139: what the catch leaves of the row.
RowAfterCatch(row, t) == row


\* Variant of PriceDropped: any recorded price change, not only a drop.
PriceDropped_AnyChange(product, scrapedData) ==
    /\ ~scrapedData.is_out_of_stock
    /\ LastPrice(product) # scrapedData.sale_price

\* Line 121: the guard before checkPriceAlerts.
PriceDropped(product, scrapedData) ==
    /\ ~scrapedData.is_out_of_stock
    /\ PriceChanged(product, scrapedData)
    /\ LastPrice(product) > scrapedData.sale_price


\* Variant of BackInStock: any change of the stock status.
BackInStock_AnyChange(product, scrapedData) ==
    product.is_out_of_stock # scrapedData.is_out_of_stock

\* Line 127: the guard before sendStockAlert.
BackInStock(product, scrapedData) ==
    /\ StockStatusChanged(product, scrapedData)
    /\ ~scrapedData.is_out_of_stock
    /\ product.is_out_of_stock

\* Lines 305-310: the alerts checkPriceAlerts selects.
TriggeredAlerts(product, newPrice) ==
    { a \in DOMAIN alerts :
        /\ alerts[a].product_id = product.id
        /\ alerts[a].is_active
        /\ alerts[a].target_price >= newPrice }

\* Lines 325-333: the mails checkPriceAlerts hands to the mail API, one per
\* selected alert whose owner's address is found.
PriceMails(selected, product, delivery) ==
    { [type |-> "price_target", alert |-> a, product |-> product.id,
       to |-> alerts[a].user_id, delivered |-> delivery[a] = "sent"] :
      a \in { b \in selected : delivery[b] # "no_email" } }


\* Variant of Deactivated: the update without its .eq('id', alert.id).
Deactivated_Every(selected, delivery) ==
    IF { a \in selected : delivery[a] # "send_throws" } = {} THEN {}
    ELSE DOMAIN alerts

\* Lines 335-343: the alerts checkPriceAlerts deactivates; a throwing send
\* jumps over the update.
Deactivated(selected, delivery) ==
    { a \in selected : delivery[a] # "send_throws" }

\* Line 338: the value the update writes into is_active.
DeactivatedFlag == FALSE

\* Lines 170-185: the mail sendStockAlert hands to the mail API.
StockMails(product, stockDelivery) ==
    IF stockDelivery = "no_email" THEN {}
    ELSE { [type |-> "back_in_stock", alert |-> 0, product |-> product.id,
            to |-> product.user_id, delivered |-> stockDelivery = "sent"] }

ItemLog(s, product, scrapedData, outcome) ==
    [kind |-> "item", sweep |-> s, id |-> product.id, stored |-> product,
     scraped |-> scrapedData, outcome |-> outcome,
     newPriceHistory |-> product.price_history,
     priceChanged |-> FALSE, stockStatusChanged |-> FALSE,
     alertsChecked |-> FALSE, queried |-> FALSE, selected |-> {},
     stockAlert |-> FALSE,
     delivery |-> << >>, stockDelivery |-> "none",
     mails |-> {}, deactivated |-> {}, delayed |-> FALSE]


\* Variant of ItemThrown: the error ends the loop.
ItemThrown_Aborts(s, product, scrapedData) ==
    /\ sweeps' = [sweeps EXCEPT ![s].queue = << >>,
                    ![s].errors = Append(@, [what |-> "scrape", id |-> product.id])]
    /\ out' = ItemLog(s, product, scrapedData, "scrape_failed")
    /\ UNCHANGED <<products, alerts>>

\* Lines 136-139: the catch records the error; the delay is skipped.
ItemThrown(s, product, scrapedData) ==
    /\ sweeps' = [sweeps EXCEPT ![s].queue = Tail(@),
                    ![s].errors = Append(@, [what |-> "scrape", id |-> product.id])]
    /\ products' = [products EXCEPT ![product.id] = RowAfterCatch(@, now)]
    /\ out' = ItemLog(s, product, scrapedData, "scrape_failed")
    /\ UNCHANGED alerts

\* Variant of ItemNotSaved: the notifications of lines 120-131 placed
\* outside the else branch, so that they follow a rejected update too.
ItemNotSaved_Notifies(s, product, scrapedData, log) ==
    LET selected == IF PriceDropped(product, scrapedData)
                    THEN TriggeredAlerts(product, scrapedData.sale_price)
                    ELSE {}
        delivery == [a \in selected |-> "sent"]
    IN  /\ sweeps' = [sweeps EXCEPT ![s].queue = Tail(@),
                        ![s].errors = Append(@, [what |-> "update",
                                                  id |-> product.id])]
        /\ alerts' = [a \in DOMAIN alerts |->
                        IF a \in Deactivated(selected, delivery)
                        THEN [alerts[a] EXCEPT !.is_active = DeactivatedFlag]
                        ELSE alerts[a]]
        /\ out' = [log EXCEPT !.outcome = "update_failed",
                              !.alertsChecked = PriceDropped(product, scrapedData),
                              !.selected = selected,
                              !.delivery = delivery,
                              !.mails = PriceMails(selected, product, delivery),
                              !.deactivated = Deactivated(selected, delivery)]
        /\ UNCHANGED products

\* Lines 114-115: the update is rejected.
ItemNotSaved(s, product, scrapedData, log) ==
    /\ sweeps' = [sweeps EXCEPT ![s].queue = Tail(@),
                    ![s].errors = Append(@, [what |-> "update", id |-> product.id])]
    /\ out' = [log EXCEPT !.outcome = "update_failed"]
    /\ UNCHANGED <<products, alerts>>

\* Variant of ItemSaved: a throwing send reaches the per-item catch.
ItemSaved_DeliveryFails(s, product, scrapedData, log) ==
    LET checkAlerts == PriceDropped(product, scrapedData)
        backInStock == BackInStock(product, scrapedData)
        newPrice == scrapedData.sale_price
    IN  /\ products' = [products EXCEPT ![product.id] =
                          UpdatedRow(@, product, scrapedData, now)]
        /\ \E queryOk \in IF checkAlerts THEN BOOLEAN ELSE {FALSE} :
           LET selected == IF queryOk THEN TriggeredAlerts(product, newPrice) ELSE {}
           IN  \E delivery \in [selected -> Deliveries],
                  stockDelivery \in IF backInStock THEN Deliveries ELSE {"sent"} :
                 LET thrown == \/ \E a \in selected : delivery[a] = "send_throws"
                               \/ stockDelivery = "send_throws"
                 IN
                 /\ sweeps' = [sweeps EXCEPT ![s].queue = Tail(@),
                                 ![s].updatedCount = @ + 1,
                                 ![s].errors =
                                    IF thrown
                                    THEN Append(@, [what |-> "scrape",
                                                    id |-> product.id])
                                    ELSE @]
                 /\ alerts' = [a \in DOMAIN alerts |->
                                 IF a \in Deactivated(selected, delivery)
                                 THEN [alerts[a] EXCEPT !.is_active = DeactivatedFlag]
                                 ELSE alerts[a]]
                 /\ out' = [log EXCEPT
                              !.alertsChecked = checkAlerts,
                              !.queried = queryOk,
                              !.selected = selected,
                              !.stockAlert = backInStock,
                              !.delivery = delivery,
                              !.stockDelivery =
                                 IF backInStock THEN stockDelivery ELSE "none",
                              !.mails =
                                 PriceMails(selected, product, delivery)
                                 \cup (IF backInStock
                                       THEN StockMails(product, stockDelivery)
                                       ELSE {}),
                              !.deactivated = Deactivated(selected, delivery)]

\* Lines 116-131: the row is written, then the notifications.
ItemSaved(s, product, scrapedData, log) ==
    LET checkAlerts == PriceDropped(product, scrapedData)
        backInStock == BackInStock(product, scrapedData)
        newPrice == scrapedData.sale_price
    IN  /\ sweeps' = [sweeps EXCEPT ![s].queue = Tail(@),
                        ![s].updatedCount = @ + 1]
        /\ products' = [products EXCEPT ![product.id] =
                          UpdatedRow(@, product, scrapedData, now)]
        /\ \E queryOk \in IF checkAlerts THEN BOOLEAN ELSE {FALSE} :
           LET selected == IF queryOk THEN TriggeredAlerts(product, newPrice) ELSE {}
           IN  \E delivery \in [selected -> Deliveries],
                  stockDelivery \in IF backInStock THEN Deliveries ELSE {"sent"} :
                 /\ alerts' = [a \in DOMAIN alerts |->
                                 IF a \in Deactivated(selected, delivery)
                                 THEN [alerts[a] EXCEPT !.is_active = DeactivatedFlag]
                                 ELSE alerts[a]]
                 /\ out' = [log EXCEPT
                              !.alertsChecked = checkAlerts,
                              !.queried = queryOk,
                              !.selected = selected,
                              !.stockAlert = backInStock,
                              !.delivery = delivery,
                              !.stockDelivery =
                                 IF backInStock THEN stockDelivery ELSE "none",
                              !.mails =
                                 PriceMails(selected, product, delivery)
                                 \cup (IF backInStock
                                       THEN StockMails(product, stockDelivery)
                                       ELSE {}),
                              !.deactivated = Deactivated(selected, delivery)]

\* One turn of the loop of lines 61-140, for the first row still queued.
SweepItem(s, pages) ==
    LET product == Head(sweeps[s].queue)
    IN  /\ sweeps[s].pc = "running"
        /\ sweeps[s].queue # << >>
        /\ UNCHANGED <<now, alertSeq, tracking>>
        /\ \E page \in pages :
           LET scrapedData == scrapeProduct(page)
               log == [ItemLog(s, product, scrapedData, "updated") EXCEPT
                         !.newPriceHistory =
                            NewPriceHistory(product, scrapedData, now),
                         !.priceChanged = PriceChanged(product, scrapedData),
                         !.stockStatusChanged =
                            StockStatusChanged(product, scrapedData),
                         !.delayed = TRUE]
           IN  IF ~scrapedData.ok
               THEN ItemThrown(s, product, scrapedData)
               ELSE \E updateOk \in BOOLEAN :
                      IF updateOk
                      THEN ItemSaved(s, product, scrapedData, log)
                      ELSE ItemNotSaved(s, product, scrapedData, log)

\* Lines 142-156: the loop is over, the summary is returned.
SweepFinish(s) ==
    LET sw == sweeps[s]
    IN  /\ sw.pc = "running"
        /\ sw.queue = << >>
        /\ sweeps' = [sweeps EXCEPT ![s] = Idle]
        /\ out' = [kind |-> "sweep_response", sweep |-> s, status |-> 200,
                   updated |-> sw.updatedCount, total |-> sw.total,
                   errors |-> sw.errors, none |-> FALSE]
        /\ UNCHANGED <<now, products, alerts, alertSeq, tracking>>

(* --------------------------- alert dialog ----------------------------- *)

\* The sale price the dialog's copy of the product can show: the stored one
\* or an earlier one.
ShownPrices(p) ==
    {products[p].sale_price}
        \cup { products[p].price_history[i].price :
                 i \in 1..Len(products[p].price_history) }

handleCreateAlert(user, p, price) ==
    /\ p \in DOMAIN products
    /\ products[p].user_id = user
    /\ alertSeq < MaxAlerts
    /\ UNCHANGED <<now, products, sweeps, tracking>>
    /\ \E shownPrice \in ShownPrices(p) :
         IF price <= 0 \/ price >= shownPrice
         THEN /\ out' = [kind |-> "create_alert", created |-> FALSE, id |-> 0]
              /\ UNCHANGED <<alerts, alertSeq>>
         ELSE /\ alertSeq' = alertSeq + 1
              /\ alerts' = alerts @@ ((alertSeq + 1) :>
                              [product_id |-> p, user_id |-> user,
                               target_price |-> price, is_active |-> TRUE])
              /\ out' = [kind |-> "create_alert", created |-> TRUE,
                         id |-> alertSeq + 1]

\* The dialog passes the flag of its own copy of the alert, which can be
\* out of date; the update writes its negation.
handleToggleAlert(alertId, isActive) ==
    /\ alertId \in DOMAIN alerts
    /\ alerts' = [alerts EXCEPT ![alertId].is_active = ~isActive]
    /\ out' = [kind |-> "toggle_alert", id |-> alertId, shown |-> isActive,
               before |-> alerts[alertId].is_active]
    /\ UNCHANGED <<now, products, alertSeq, sweeps, tracking>>

handleDeleteAlert(alertId) ==
    /\ alertId \in DOMAIN alerts
    /\ alerts' = [a \in DOMAIN alerts \ {alertId} |-> alerts[a]]
    /\ out' = [kind |-> "delete_alert", id |-> alertId]
    /\ UNCHANGED <<now, products, alertSeq, sweeps, tracking>>

(* -------------------------- specifications ---------------------------- *)

Tokens(users) == users \cup {NoHeader, BadToken}

\* One owner, hence one tracked item, with every kind of page and the
\* alert dialog.
Next ==
    \/ Tick
    \/ \E auth \in Tokens({"u1"}), url \in Urls : TrackProduct(auth, url, Pages)
    \/ \E s \in SweepIds : SweepStart(s)
    \/ \E s \in SweepIds : SweepItem(s, Pages)
    \/ \E s \in SweepIds : SweepFinish(s)
    \/ \E user \in {"u1"}, p \in DOMAIN products, price \in TargetPrices :
          handleCreateAlert(user, p, price)
    \/ \E alertId \in DOMAIN alerts, isActive \in BOOLEAN :
          handleToggleAlert(alertId, isActive)
    \/ \E alertId \in DOMAIN alerts : handleDeleteAlert(alertId)

Spec == Init /\ [][Next]_vars

\* Two owners, hence two tracked items in one sweep; pages with a price or
\* an HTTP error; no alerts.
FewPages == {PageHttpError, PageLow, PageHigh}

NextTwoItems ==
    \/ Tick
    \/ \E auth \in Tokens(Users), url \in Urls : TrackProduct(auth, url, FewPages)
    \/ \E s \in SweepIds : SweepStart(s)
    \/ \E s \in SweepIds : SweepItem(s, FewPages)
    \/ \E s \in SweepIds : SweepFinish(s)

SpecTwoItems == Init /\ [][NextTwoItems]_vars

\* Two owners who start tracking in hour 0 and then set alerts; the clock
\* ticks between sweeps.
NextTwoItemsAlerts ==
    \/ (\A s \in SweepIds : sweeps[s].pc = "idle") /\ Tick
    \/ /\ now = 0
       /\ \E auth \in Tokens(Users), url \in Urls :
             TrackProduct(auth, url, {PageHttpError})
    \/ \E s \in SweepIds : SweepStart(s)
    \/ \E s \in SweepIds : SweepItem(s, {PageLow, PageHigh})
    \/ \E s \in SweepIds : SweepFinish(s)
    \/ \E user \in Users, p \in DOMAIN products, price \in TargetPrices \ {0} :
          handleCreateAlert(user, p, price)

SpecTwoItemsAlerts == Init /\ [][NextTwoItemsAlerts]_vars

\* Tracking requests of one owner that can overlap, for every kind of URL.
TrackingPages == {PageHttpError, PageLow, PageOutOfStock}

NextTracking ==
    \/ \E r \in RequestIds, auth \in Tokens({"u1"}), url \in MoreUrls :
          TrackCheck(r, auth, url)
    \/ \E r \in RequestIds : TrackInsert(r, TrackingPages)

SpecTracking == Init /\ [][NextTracking]_vars

\* The sweep's extractor on its own, applied to every kind of page.
ListPrices == {0, 32000, 50000, 55000}
SalePrices == {0, 27000, 29000, 45000}

ExtractPages ==
    { Page(ok, oos, mrp, sale) :
        ok \in BOOLEAN, oos \in BOOLEAN, mrp \in ListPrices, sale \in SalePrices }

InitExtract ==
    /\ now = 0
    /\ products = << >>
    /\ alerts = << >>
    /\ alertSeq = 0
    /\ sweeps = [s \in SweepIds |-> Idle]
    /\ tracking = [r \in RequestIds |-> NoRequest]
    /\ out \in { [kind |-> "page", page |-> page] : page \in ExtractPages }

Extract ==
    /\ out.kind = "page"
    /\ out' = [kind |-> "extracted", page |-> out.page,
               result |-> scrapeProduct(out.page)]
    /\ UNCHANGED <<now, products, alerts, alertSeq, sweeps, tracking>>

NextExtract == Extract

SpecExtract == InitExtract /\ [][NextExtract]_vars

\* The sweep under its schedule: the cron job calls update-prices at the
\* top of every hour, so a sweep starts right after each tick of the clock
\* and at no other time.
NextHourly ==
    \/ /\ out.kind # "tick"
       /\ \A s \in SweepIds : sweeps[s].pc = "idle"
       /\ Tick
    \/ /\ out.kind # "tick"
       /\ \E auth \in Tokens({"u1"}), url \in Urls :
             TrackProduct(auth, url, FewPages)
    \/ /\ out.kind = "tick"
       /\ \E s \in SweepIds : SweepStart(s)
    \/ \E s \in SweepIds : SweepItem(s, FewPages)
    \/ \E s \in SweepIds : SweepFinish(s)

SpecHourly == Init /\ [][NextHourly]_vars

\* A state in which nothing is stored and out holds an input of a function.
InitWith(inputs) ==
    /\ now = 0
    /\ products = << >>
    /\ alerts = << >>
    /\ alertSeq = 0
    /\ sweeps = [s \in SweepIds |-> Idle]
    /\ tracking = [r \in RequestIds |-> NoRequest]
    /\ out \in inputs

\* index.ts:544 and 574, the upper limit of a price taken by a fallback
\* pattern.
PriceLimit == 2000000

\* The number a pattern's first match parses to; 0 stands for no match, a
\* match of 0 and a match without digits (NaN), which the code treats alike.
MatchValues == {0, 27000, 2500000}

\* The fallback patterns of one cascade, in the order of the array.
FallbackPatterns == 1..4

\* Lines 524-550 (list price) and 553-581 (sale price): the primary
\* pattern's match is taken as it is; when it gives nothing the first
\* fallback pattern whose match is in range gives the price.
PickPrice(primary, fallbacks) ==
    IF primary # 0 THEN primary
    ELSE LET inRange == { i \in DOMAIN fallbacks :
                            fallbacks[i] > 0 /\ fallbacks[i] < PriceLimit }
         IN  IF inRange = {} THEN 0
             ELSE fallbacks[CHOOSE i \in inRange : \A j \in inRange : i <= j]

PickStep ==
    /\ out.kind = "markup"
    /\ out' = [kind |-> "picked", primary |-> out.primary,
               fallbacks |-> out.fallbacks,
               price |-> PickPrice(out.primary, out.fallbacks)]
    /\ UNCHANGED <<now, products, alerts, alertSeq, sweeps, tracking>>

InitCascade ==
    InitWith({ [kind |-> "markup", primary |-> pr, fallbacks |-> fb] :
                 pr \in MatchValues, fb \in [FallbackPatterns -> MatchValues] })

NextCascade == PickStep

SpecCascade == InitCascade /\ [][NextCascade]_vars

\* The discount, for the prices and the discount number the patterns gave
\* (0: no discount text, or the text 0).  The string N% is written N.
DiscountLists == {0, 20000, 50000}
DiscountSales == {0, 17100, 40000, 49750, 50000, 55000}
DiscountTexts == {0, 10}

\* The pairs of DiscountLists and DiscountSales for which the double
\* ((mrp - sale) / mrp) * 100 falls just below an exact half:
\* (2900 / 20000) * 100 is 14.499999999999998.
RoundsBelowHalf == { <<20000, 17100>> }

\* Variant of DiscountPercent: the percentage cut off, not rounded.
DiscountPercent_Floor(mrp, sale) == (100 * (mrp - sale)) \div mrp

\* Line 613: Math.round(((mrp - sale_price) / mrp) * 100), on doubles.
DiscountPercent(mrp, sale) ==
    LET halfUp == (200 * (mrp - sale) + mrp) \div (2 * mrp)
    IN  IF <<mrp, sale>> \in RoundsBelowHalf THEN halfUp - 1 ELSE halfUp

\* Lines 583-615.
Discount(oos, mrp, sale, text) ==
    IF oos THEN 0
    ELSE IF text # 0 THEN text
    ELSE IF mrp > 0 /\ sale > 0 /\ mrp > sale THEN DiscountPercent(mrp, sale)
    ELSE 0

DiscountStep ==
    /\ out.kind = "prices"
    /\ out' = [kind |-> "discount", oos |-> out.oos, mrp |-> out.mrp,
               sale |-> out.sale, text |-> out.text,
               discount |-> Discount(out.oos, out.mrp, out.sale, out.text)]
    /\ UNCHANGED <<now, products, alerts, alertSeq, sweeps, tracking>>

InitDiscount ==
    InitWith({ [kind |-> "prices", oos |-> oos, mrp |-> mrp, sale |-> sale,
                text |-> text] :
                 oos \in BOOLEAN, mrp \in DiscountLists,
                 sale \in DiscountSales, text \in DiscountTexts })

NextDiscount == DiscountStep

SpecDiscount == InitDiscount /\ [][NextDiscount]_vars

\* Two invocations of update-prices that can run at once: the hourly job's
\* and one more (the endpoint answers any caller, and a sweep of many items
\* outlasts the hour).
OverlapIds == {1, 2}

InitOverlap ==
    /\ now = 0
    /\ products = << >>
    /\ alerts = << >>
    /\ alertSeq = 0
    /\ sweeps = [s \in OverlapIds |-> Idle]
    /\ tracking = [r \in RequestIds |-> NoRequest]
    /\ out = NoOut

\* The turn of the loop for one item (lines 61-140), cut once more at the
\* await that follows the select of checkPriceAlerts (lines 305-310): when
\* the row is saved with a price drop this step ends with the alerts
\* selected and the sends still to come; every other turn is whole.
ItemSelect(s, pages) ==
    LET product == Head(sweeps[s].queue)
    IN  /\ sweeps[s].pc = "running"
        /\ sweeps[s].queue # << >>
        /\ UNCHANGED <<now, alertSeq, tracking>>
        /\ \E page \in pages :
           LET scrapedData == scrapeProduct(page)
               log == [ItemLog(s, product, scrapedData, "updated") EXCEPT
                         !.newPriceHistory =
                            NewPriceHistory(product, scrapedData, now),
                         !.priceChanged = PriceChanged(product, scrapedData),
                         !.stockStatusChanged =
                            StockStatusChanged(product, scrapedData),
                         !.delayed = TRUE]
           IN  IF ~scrapedData.ok
               THEN ItemThrown(s, product, scrapedData)
               ELSE \E updateOk \in BOOLEAN :
                      IF ~updateOk
                      THEN ItemNotSaved(s, product, scrapedData, log)
                      ELSE IF ~PriceDropped(product, scrapedData)
                      THEN ItemSaved(s, product, scrapedData, log)
                      ELSE \E queryOk \in BOOLEAN :
                             LET selected ==
                                    IF queryOk
                                    THEN TriggeredAlerts(product,
                                                         scrapedData.sale_price)
                                    ELSE {}
                             IN
                             /\ products' = [products EXCEPT ![product.id] =
                                               UpdatedRow(@, product,
                                                          scrapedData, now)]
                             /\ sweeps' = [sweeps EXCEPT ![s] =
                                   [pc |-> "selected",
                                    start |-> @.start,
                                    queue |-> @.queue,
                                    total |-> @.total,
                                    updatedCount |-> @.updatedCount + 1,
                                    errors |-> @.errors,
                                    log |-> log,
                                    queried |-> queryOk,
                                    selected |-> selected]]
                             /\ out' = [kind |-> "item_selected", sweep |-> s,
                                        id |-> product.id,
                                        scraped |-> scrapedData,
                                        selected |-> selected]
                             /\ UNCHANGED alerts

\* Lines 312-344 and 127-131: the sends and the deactivations for the
\* alerts selected before, whatever they have become since, then the stock
\* notification.
ItemNotify(s, deliveries) ==
    LET sw == sweeps[s]
        product == Head(sw.queue)
        scrapedData == sw.log.scraped
        selected == sw.selected
        backInStock == BackInStock(product, scrapedData)
    IN  /\ sw.pc = "selected"
        /\ UNCHANGED <<now, products, alertSeq, tracking>>
        /\ \E delivery \in [selected -> deliveries],
              stockDelivery \in IF backInStock THEN deliveries ELSE {"sent"} :
             /\ alerts' = [a \in DOMAIN alerts |->
                             IF a \in Deactivated(selected, delivery)
                             THEN [alerts[a] EXCEPT !.is_active = DeactivatedFlag]
                             ELSE alerts[a]]
             /\ sweeps' = [sweeps EXCEPT ![s] =
                   [pc |-> "running", start |-> sw.start,
                    queue |-> Tail(sw.queue), total |-> sw.total,
                    updatedCount |-> sw.updatedCount, errors |-> sw.errors]]
             /\ out' = [sw.log EXCEPT
                          !.alertsChecked = TRUE,
                          !.queried = sw.queried,
                          !.selected = selected,
                          !.stockAlert = backInStock,
                          !.delivery = delivery,
                          !.stockDelivery =
                             IF backInStock THEN stockDelivery ELSE "none",
                          !.mails =
                             PriceMails(selected, product, delivery)
                             \cup (IF backInStock
                                   THEN StockMails(product, stockDelivery)
                                   ELSE {}),
                          !.deactivated = Deactivated(selected, delivery)]

\* One owner who starts tracking in hour 0 and sets alerts, the user never
\* switching an alert back on; two sweeps that can overlap, on pages with a
\* price, with a mail service that delivers.  Here an alert is inactive
\* only after a notification for it was delivered.
NextOverlap ==
    \/ Tick
    \/ /\ now = 0
       /\ \E auth \in Tokens({"u1"}), url \in Urls :
             TrackProduct(auth, url, {PageHttpError})
    \/ \E s \in OverlapIds : SweepStart(s)
    \/ \E s \in OverlapIds : ItemSelect(s, {PageLow, PageHigh})
    \/ \E s \in OverlapIds : ItemNotify(s, {"sent"})
    \/ \E s \in OverlapIds : SweepFinish(s)
    \/ \E user \in {"u1"}, p \in DOMAIN products, price \in TargetPrices \ {0} :
          handleCreateAlert(user, p, price)

SpecOverlap == InitOverlap /\ [][NextOverlap]_vars

\* The send-price-alert-email function on its own.  The address a user
\* signed up with.
Address(user) == <<user, "@mail.example">>

\* The userEmail field of a request that carries none.
NoAddress == << >>

\* A request as the handler sees it: whether the body parses, the type, whether
\* product and alert are present (truthy), the userEmail field and the
\* authorization.
EmailTypes == {"", "alert_setup", "price_triggered", "digest"}

EmailRequests ==
    [parsed : BOOLEAN, type : EmailTypes, product : BOOLEAN, alert : BOOLEAN,
     userEmail : {NoAddress} \cup { Address(u) : u \in Users },
     auth : Tokens({"u1"})]

\* What the mail service does with a mail: RESEND_API_KEY set and the API
\* accepts it, the API call fails, or no key is set (the mail is only
\* logged).
MailService == {"sent", "send_throws", "no_key"}

\* Lines 92-233 and 235-382: the mail the send functions hand to the API.
HandedMails(type, userEmail, service) ==
    IF service = "no_key" THEN {}
    ELSE { [type |-> type, to |-> userEmail, delivered |-> service = "sent"] }

\* Lines 21-89: the status the handler returns and the mails it hands over.
sendEmail(req, service) ==
    IF ~req.parsed
    THEN [status |-> 500, mails |-> {}]
    ELSE IF req.type = "" \/ ~req.product \/ ~req.alert \/ req.userEmail = NoAddress
    THEN [status |-> 400, mails |-> {}]
    ELSE IF req.auth = NoHeader
    THEN [status |-> 401, mails |-> {}]
    ELSE IF req.auth = BadToken
    THEN [status |-> 401, mails |-> {}]
    ELSE IF req.type \in {"alert_setup", "price_triggered"}
    THEN [status |-> IF service = "send_throws" THEN 500 ELSE 200,
          mails |-> HandedMails(req.type, req.userEmail, service)]
    ELSE [status |-> 200, mails |-> {}]

EmailStep ==
    /\ out.kind = "email_request"
    /\ out' = [kind |-> "email_response", request |-> out.request,
               service |-> out.service,
               status |-> sendEmail(out.request, out.service).status,
               mails |-> sendEmail(out.request, out.service).mails]
    /\ UNCHANGED <<now, products, alerts, alertSeq, sweeps, tracking>>

InitEmail ==
    InitWith({ [kind |-> "email_request", request |-> req, service |-> service] :
                 req \in EmailRequests, service \in MailService })

NextEmail == EmailStep

SpecEmail == InitEmail /\ [][NextEmail]_vars

\* The sweep over unbounded time.  The clock is kept relative: an hour
\* passing moves every stored timestamp one hour back instead of moving
\* now forward.  The code compares a timestamp only with one hour ago
\* (line 33-38), so all timestamps older than that are kept as one.
Older(t) == IF t - 1 < now - OneHour - 1 THEN now - OneHour - 1 ELSE t - 1

Hour ==
    /\ \A s \in SweepIds : sweeps[s].pc = "idle"
    /\ products' =
         [p \in DOMAIN products |->
            [products[p] EXCEPT
               !.last_checked = Older(products[p].last_checked),
               !.price_history =
                  [i \in DOMAIN products[p].price_history |->
                     [price |-> products[p].price_history[i].price,
                      checked_at |->
                         Older(products[p].price_history[i].checked_at)]]]]
    /\ out' = [kind |-> "tick"]
    /\ UNCHANGED <<now, alerts, alertSeq, sweeps, tracking>>

\* One owner and one item whose page, once swept, always shows the same
\* in-stock price; the cron job starts a sweep right after every hour, the
\* dialog is used in between.
NextLive ==
    \/ out.kind # "tick" /\ Hour
    \/ /\ out.kind # "tick"
       /\ \E auth \in Tokens({"u1"}), url \in Urls :
             TrackProduct(auth, url, {PageHttpError})
    \/ out.kind = "tick" /\ \E s \in SweepIds : SweepStart(s)
    \/ \E s \in SweepIds : SweepItem(s, {PageLow})
    \/ \E s \in SweepIds : SweepFinish(s)
    \/ /\ out.kind # "tick"
       /\ \E user \in {"u1"}, p \in DOMAIN products, price \in TargetPrices :
             handleCreateAlert(user, p, price)
    \/ /\ out.kind # "tick"
       /\ \E alertId \in DOMAIN alerts, isActive \in BOOLEAN :
             handleToggleAlert(alertId, isActive)

\* The hours keep passing and the cron job keeps calling the function
\* (part_000:17-31); an invocation that has started runs to its end.
SpecLive ==
    /\ Init
    /\ [][NextLive]_vars
    /\ WF_vars(out.kind # "tick" /\ Hour)
    /\ WF_vars(out.kind = "tick" /\ \E s \in SweepIds : SweepStart(s))
    /\ WF_vars(\E s \in SweepIds : SweepItem(s, {PageLow}))
    /\ WF_vars(\E s \in SweepIds : SweepFinish(s))

(* ------------------------------ claims -------------------------------- *)

\* The price of the last entry of a history, 0 for the empty history.
HistoryLastPrice(h) == IF Len(h) = 0 THEN 0 ELSE h[Len(h)].price

PriceMailsFor(o, a) == { m \in o.mails : m.type = "price_target" /\ m.alert = a }

StockMailsOf(o) == { m \in o.mails : m.type = "back_in_stock" }

\* A step is the turn of the loop for one item exactly when it leaves an
\* item log in out; the stored row of the item is products[out'.id].
ItemStep == out'.kind = "item"

\* C1: for an item whose fetch and extraction succeed, the history the sweep
\* writes back is the stored history plus the entry {extracted sale price,
\* now} if and only if the extraction is in stock and its sale price differs
\* from the price of the last stored entry (0 for the empty history), and is
\* exactly the stored history otherwise; a row's history only ever changes
\* to what was written back, so every earlier history of an item is a prefix
\* of every later one.
C1_Step ==
    /\ \A p \in DOMAIN products :
         /\ p \in DOMAIN products'
         /\ IsPrefix(products[p].price_history, products'[p].price_history)
    /\ (ItemStep /\ out'.scraped.ok) =>
         LET stored == products[out'.id].price_history
             fresh == out'.scraped
             entry == [price |-> fresh.sale_price, checked_at |-> now]
             differs == /\ ~fresh.is_out_of_stock
                        /\ HistoryLastPrice(stored) # fresh.sale_price
         IN  /\ out'.newPriceHistory =
                   IF differs THEN Append(stored, entry) ELSE stored
             /\ products'[out'.id].price_history \in {stored, out'.newPriceHistory}
             /\ out'.outcome = "updated" =>
                   products'[out'.id].price_history = out'.newPriceHistory

C1_HistoryAppendOnly == [][C1_Step]_vars

\* C1 witness: a sweep has appended the third entry to an item's history.
C1_Witness ==
    /\ out.kind = "item"
    /\ out.outcome = "updated"
    /\ Len(out.stored.price_history) = 2
    /\ Len(products[out.id].price_history) = 3

\* C2: a reconciliation whose extraction result is identical to the one the
\* item's previous reconciliation stored (list price, sale price and stock
\* status: the snapshot is the result written last) appends no history
\* entry, detects no stock-status change and hands no price or stock
\* notification to the mail API.
C2_Idempotent ==
    ( /\ out.kind = "item"
      /\ out.scraped.ok
      /\ out.scraped.mrp = out.stored.mrp
      /\ out.scraped.sale_price = out.stored.sale_price
      /\ out.scraped.is_out_of_stock = out.stored.is_out_of_stock )
    => /\ out.newPriceHistory = out.stored.price_history
       /\ products[out.id].price_history = out.stored.price_history
       /\ ~out.priceChanged
       /\ ~out.stockStatusChanged
       /\ out.mails = {}
       /\ out.deactivated = {}

\* C2 witness: an item that an earlier sweep already reconciled is
\* reconciled again with the same result, while an active alert whose target
\* the price has reached is set on it.
C2_Witness ==
    /\ out.kind = "item"
    /\ out.outcome = "updated"
    /\ out.stored.last_checked > out.stored.price_history[1].checked_at
    /\ out.scraped.mrp = out.stored.mrp
    /\ out.scraped.sale_price = out.stored.sale_price
    /\ out.scraped.is_out_of_stock = out.stored.is_out_of_stock
    /\ ~out.scraped.is_out_of_stock
    /\ \E a \in DOMAIN alerts :
         /\ alerts[a].product_id = out.id
         /\ alerts[a].is_active
         /\ alerts[a].target_price >= out.scraped.sale_price

\* The alerts of the item of this step that are active and whose target is
\* at or above the extracted sale price, before the step.
DueAlerts ==
    { a \in DOMAIN alerts :
        /\ alerts[a].product_id = out'.id
        /\ alerts[a].is_active
        /\ alerts[a].target_price >= out'.scraped.sale_price }

\* C3 as stated: whenever a reconciliation records a price change of an
\* in-stock item, lower or higher, every active alert of the item with
\* target >= the new sale price gets a "price target reached" notification
\* and is set inactive.
C3_AnyChange_Step ==
    ( /\ ItemStep
      /\ out'.outcome = "updated"
      /\ ~out'.scraped.is_out_of_stock
      /\ HistoryLastPrice(products[out'.id].price_history)
            # out'.scraped.sale_price )
    => \A a \in DueAlerts :
          /\ PriceMailsFor(out', a) # {}
          /\ ~alerts'[a].is_active

C3_Drop_Step ==
    ItemStep =>
       LET dropped == /\ out'.outcome = "updated"
                      /\ ~out'.scraped.is_out_of_stock
                      /\ HistoryLastPrice(products[out'.id].price_history)
                            > out'.scraped.sale_price
       IN  IF dropped /\ out'.queried
           THEN /\ out'.selected = DueAlerts
                /\ \A a \in DueAlerts :
                     /\ PriceMailsFor(out', a) # {}
                           <=> out'.delivery[a] # "no_email"
                     /\ ~alerts'[a].is_active
                           <=> out'.delivery[a] # "send_throws"
           ELSE /\ out'.selected = {}
                /\ \A a \in DOMAIN alerts : PriceMailsFor(out', a) = {}
                /\ alerts' = alerts

C4_Evaluate_Step ==
    (ItemStep /\ out'.alertsChecked /\ out'.queried) =>
       \A a \in DOMAIN alerts :
          /\ IF a \in DueAlerts
             THEN /\ Cardinality(PriceMailsFor(out', a)) = 1
                  /\ ~alerts'[a].is_active
             ELSE /\ PriceMailsFor(out', a) = {}
                  /\ alerts'[a] = alerts[a]
          /\ (alerts[a].is_active /\ ~alerts'[a].is_active)
                => PriceMailsFor(out', a) # {}

C4_Original == [][C4_Evaluate_Step]_vars

\* C5 as stated: once an alert is inactive, no step makes it active again.
C5_OneWay_Step ==
    \A a \in DOMAIN alerts :
       (a \in DOMAIN alerts' /\ ~alerts[a].is_active) => ~alerts'[a].is_active

C5_Original == [][C5_OneWay_Step]_vars

\* C5 amended: a sweep changes the active flag of an alert only from true to
\* false and only for an alert it selected; an alert becomes active again
\* only by the dialog's toggle of that alert, which can also deactivate an
\* active alert; an alert is created active, by the dialog's create.
C5_Toggle_Step ==
    /\ \A a \in DOMAIN alerts \cap DOMAIN alerts' :
         alerts[a].is_active # alerts'[a].is_active =>
            IF alerts'[a].is_active
            THEN out'.kind = "toggle_alert" /\ out'.id = a
            ELSE \/ out'.kind = "toggle_alert" /\ out'.id = a
                 \/ out'.kind = "item" /\ a \in out'.selected
    /\ \A a \in DOMAIN alerts' \ DOMAIN alerts :
         /\ alerts'[a].is_active
         /\ out'.kind = "create_alert"
         /\ out'.id = a

C5_Amended == [][C5_Toggle_Step]_vars

\* C5 witness: the toggle has made active again an alert that a sweep, or
\* an earlier toggle, had made inactive.
C5_Witness ==
    /\ out.kind = "toggle_alert"
    /\ ~out.before
    /\ alerts[out.id].is_active

\* C6: an item whose fetch or extraction throws does not end the sweep: each
\* turn of the loop takes exactly the first queued item off the queue and
\* either writes its row and counts it as updated or adds one error entry
\* for it; the summary is returned when every selected item had its turn,
\* with total = the number of items selected and updated + the number of
\* error entries = total.
C6_Step ==
    /\ \A s \in SweepIds :
         sweeps[s].pc = "running" =>
            sweeps[s].updatedCount + Len(sweeps[s].errors) + Len(sweeps[s].queue)
               = sweeps[s].total
    /\ out'.kind = "sweep_start" =>
         LET sw == sweeps'[out'.sweep]
         IN  /\ sw.total = Cardinality({ p \in DOMAIN products :
                                           products[p].last_checked + OneHour < now })
             /\ Len(sw.queue) = sw.total
    /\ ItemStep =>
         LET sw == sweeps[out'.sweep]
             after == sweeps'[out'.sweep]
             written == products'[out'.id] # products[out'.id]
         IN  /\ out'.id = sw.queue[1].id
             /\ after.queue = Tail(sw.queue)
             /\ after.total = sw.total
             /\ after.pc = "running"
             /\ IF written
                THEN /\ after.updatedCount = sw.updatedCount + 1
                     /\ after.errors = sw.errors
                ELSE /\ after.updatedCount = sw.updatedCount
                     /\ Len(after.errors) = Len(sw.errors) + 1
                     /\ after.errors[Len(after.errors)].id = out'.id
    /\ (out'.kind = "sweep_response" /\ out'.status = 200 /\ ~out'.none) =>
         LET sw == sweeps[out'.sweep]
         IN  /\ sw.queue = << >>
             /\ out'.total = sw.total
             /\ out'.updated = sw.updatedCount
             /\ out'.errors = sw.errors
             /\ out'.updated + Len(out'.errors) = out'.total

C6_SweepIsolation == [][C6_Step]_vars

\* C6 witness: in a sweep of two items the first item's fetch failed and
\* the second item has been updated.
C6_Witness ==
    /\ out.kind = "item"
    /\ out.outcome = "updated"
    /\ sweeps[out.sweep].total = 2
    /\ sweeps[out.sweep].updatedCount = 1
    /\ Len(sweeps[out.sweep].errors) = 1
    /\ sweeps[out.sweep].errors[1].what = "scrape"
    /\ sweeps[out.sweep].errors[1].id # out.id

\* C7: after a turn of the loop whose fetch or extraction failed, the row
\* of the item is the row the sweep had read (snapshot fields, history and
\* last_checked), and a sweep that starts now or later selects it again.
C7_FailureLeavesRow ==
    (out.kind = "item" /\ out.outcome = "scrape_failed") =>
       /\ products[out.id] = out.stored
       /\ \A t \in now..MaxTime : products[out.id] \in StaleRows(t)

\* C7 witness: a fetch failed for an item that an earlier sweep had updated.
C7_Witness ==
    /\ out.kind = "item"
    /\ out.outcome = "scrape_failed"
    /\ products[out.id].last_checked > products[out.id].price_history[1].checked_at

\* C8 as stated: every reconciliation attempt, failed ones included, sets
\* last_checked to the time of the attempt; a failed attempt leaves the other
\* fields untouched.
C8_Original ==
    out.kind = "item" =>
       /\ products[out.id].last_checked = now
       /\ out.outcome # "updated" =>
             products[out.id] = [out.stored EXCEPT !.last_checked = now]

\* C8 amended: last_checked is set to the time of the reconciliation when
\* the reconciliation's update is persisted; an attempt whose fetch or
\* extraction fails, or whose update is rejected, leaves last_checked and
\* every other field of the row as they were.
C8_Amended ==
    out.kind = "item" =>
       IF out.outcome = "updated"
       THEN products[out.id].last_checked = now
       ELSE /\ products[out.id] = out.stored
            /\ products[out.id].last_checked < now

\* C8 witness: a persisted reconciliation has moved last_checked forward.
C8_Witness ==
    /\ out.kind = "item"
    /\ out.outcome = "updated"
    /\ out.stored.last_checked < now
    /\ products[out.id].last_checked = now

\* C9: a sweep selects exactly the rows whose last_checked is more than one
\* hour before its start, each once; a turn of its loop is for a selected
\* row and writes no other row; a sweep that finds no such row changes
\* nothing and reports updated = 0.
C9_Step ==
    /\ \A s \in SweepIds : \A i \in 1..Len(sweeps[s].queue) :
         sweeps[s].queue[i].last_checked + OneHour < sweeps[s].start
    /\ out'.kind = "sweep_start" =>
         LET sw == sweeps'[out'.sweep]
         IN  /\ sw.start = now
             /\ Ids(sw.queue) = { p \in DOMAIN products :
                                    products[p].last_checked + OneHour < now }
             /\ Len(sw.queue) = Cardinality(Ids(sw.queue))
             /\ products' = products
    /\ ItemStep =>
         /\ out'.id \in Ids(sweeps[out'.sweep].queue)
         /\ \A p \in DOMAIN products :
              p # out'.id => products'[p] = products[p]
    /\ (out'.kind = "sweep_response" /\ out'.status = 200 /\ out'.none) =>
         /\ \A p \in DOMAIN products : products[p].last_checked + OneHour >= now
         /\ out'.updated = 0
         /\ products' = products
         /\ alerts' = alerts
         /\ sweeps' = sweeps

C9_StaleSelection == [][C9_Step]_vars

\* C9 witness: a sweep has started with one of two items, the other having
\* been checked exactly one hour before.
C9_Witness ==
    /\ out.kind = "sweep_start"
    /\ Len(products) = 2
    /\ Len(sweeps[out.sweep].queue) = 1
    /\ \E p \in DOMAIN products : products[p].last_checked + OneHour = now

DeliveryFailed(o) ==
    /\ o.kind = "item"
    /\ \/ o.alertsChecked /\ ~o.queried
       \/ \E a \in o.selected : o.delivery[a] # "sent"
       \/ o.stockDelivery \in {"send_throws", "no_email"}

\* C11: a failure while delivering a price-alert or stock notification does
\* not fail the reconciliation that triggered it: the item is counted as
\* updated, no error entry is added, the sweep goes on with the next queued
\* item, and the row holds the snapshot, history and last_checked the update
\* wrote.
C11_Step ==
    (ItemStep /\ DeliveryFailed(out')) =>
       LET sw == sweeps[out'.sweep]
           after == sweeps'[out'.sweep]
           row == products'[out'.id]
       IN  /\ out'.outcome = "updated"
           /\ after.updatedCount = sw.updatedCount + 1
           /\ after.errors = sw.errors
           /\ after.queue = Tail(sw.queue)
           /\ after.pc = "running"
           /\ row.mrp = out'.scraped.mrp
           /\ row.sale_price = out'.scraped.sale_price
           /\ row.is_out_of_stock = out'.scraped.is_out_of_stock
           /\ row.price_history = out'.newPriceHistory
           /\ row.last_checked = now

C11_DeliveryFailureSwallowed == [][C11_Step]_vars

\* C11 witness: the send of a price notification threw, the item is counted
\* and the sweep has no error entry.
C11_Witness ==
    /\ out.kind = "item"
    /\ \E a \in out.selected : out.delivery[a] = "send_throws"
    /\ sweeps[out.sweep].updatedCount = 1
    /\ sweeps[out.sweep].errors = << >>
    /\ products[out.id].sale_price = out.scraped.sale_price

\* The step was, or ended, the checks of a tracking request.
TrackChecked(o) ==
    \/ o.kind = "track_checked"
    \/ o.kind = "track" /\ ~o.fetched

\* C12 as stated: a tracking request whose fetch or extraction fails (HTTP
\* error, or no price data on the page) answers with an error and creates no
\* record.
C12_Original ==
    (out.kind = "track" /\ out.fetched /\ ~ExtractPrices(out.page).ok) =>
       /\ out.status >= 400
       /\ out.id = 0
       /\ \A p \in DOMAIN products :
             ~(products[p].user_id = out.user /\ products[p].url = out.url)

\* C13 as stated: a tracking request for a URL the requesting owner already
\* tracks is rejected by the checks, before the page is fetched, and no row
\* is created or changed.
C13_Step ==
    TrackChecked(out') =>
       LET existing == { p \in DOMAIN products :
                           /\ products[p].user_id = out'.user
                           /\ products[p].url = out'.url }
       IN  existing # {} =>
              /\ out'.kind = "track"
              /\ out'.status = 400
              /\ products' = products
              /\ tracking' = tracking

C13_Original == [][C13_Step]_vars

\* C14 as stated: only URLs of host www.cashify.in with the buy-refurbished
\* path are tracked; any other URL posted to the endpoint is rejected by the
\* checks, without a fetch and without a row.
C14_Original ==
    /\ \A p \in DOMAIN products : validateCashifyUrl(products[p].url)
    /\ \A r \in RequestIds :
         tracking[r].pc = "fetching" => validateCashifyUrl(tracking[r].url)
    /\ (out.kind = "track" /\ ~validateCashifyUrl(out.url)) =>
          ~out.fetched /\ out.status >= 400

\* The sale prices the extractor reads from the pages that are in stock.
InStockSalePrices(pages) ==
    { page.sale : page \in { q \in pages : q.http_ok /\ ~q.oos /\ q.sale # 0 } }

\* C15 as stated: every history entry, the first one written when tracking
\* starts included, is a sale price extracted while the item was in stock,
\* never an out-of-stock observation or a placeholder price.
C15_Original ==
    /\ \A p \in DOMAIN products :
         \A i \in 1..Len(products[p].price_history) :
            products[p].price_history[i].price
               \in InStockSalePrices(Pages \cup TrackingPages)
    /\ (out.kind = "track" /\ out.fetched /\ out.status = 200) =>
          /\ out.page.http_ok
          /\ ~out.page.oos
          /\ ~products[out.id].is_out_of_stock
          /\ products[out.id].price_history[1].price = out.page.sale

\* C16: for a fetched page without the out-of-stock marker, the sweep's
\* extractor fails, with no result, exactly when neither a list price nor a
\* sale price is located; with at least one located it returns a result, in
\* stock, whose prices are the located ones (a missing one taken from the
\* other).
C16_NoPriceFails ==
    (out.kind = "extracted" /\ out.page.http_ok /\ ~out.page.oos) =>
       IF out.page.mrp = 0 /\ out.page.sale = 0
       THEN out.result = Thrown
       ELSE /\ out.result.ok
            /\ ~out.result.is_out_of_stock
            /\ out.result.mrp =
                  IF out.page.mrp # 0 THEN out.page.mrp ELSE out.page.sale
            /\ out.result.sale_price =
                  IF out.page.sale # 0 THEN out.page.sale ELSE out.page.mrp

\* C16 witness: extraction failed on an in-stock page without prices.
C16_Witness ==
    /\ out.kind = "extracted"
    /\ out.page.http_ok /\ ~out.page.oos
    /\ out.page.mrp = 0 /\ out.page.sale = 0
    /\ ~out.result.ok

\* C17: for a fetched page with the out-of-stock marker the extractor always
\* returns a result, flagged out of stock; when no list price is located the
\* result has list price 50000 and sale price 45000.
C17_OutOfStockBackfill ==
    (out.kind = "extracted" /\ out.page.http_ok /\ out.page.oos) =>
       /\ out.result.ok
       /\ out.result.is_out_of_stock
       /\ out.page.mrp = 0 =>
             out.result.mrp = 50000 /\ out.result.sale_price = 45000

\* C17 witness: an out-of-stock page without a list price gave 50000/45000.
C17_Witness ==
    /\ out.kind = "extracted"
    /\ out.page.http_ok /\ out.page.oos
    /\ out.page.mrp = 0
    /\ out.result.ok
    /\ out.result.mrp = 50000

\* C18: on a fetched out-of-stock page the sale price is never read from the
\* markup (the result is the one of the same page without its sale price);
\* the missing sale price reuses the list price when one is located, and
\* when none is located the list price is the sale price plus 5000.
C18_OutOfStockDerived ==
    (out.kind = "extracted" /\ out.page.http_ok /\ out.page.oos) =>
       /\ out.result = scrapeProduct([out.page EXCEPT !.sale = 0])
       /\ out.page.mrp # 0 =>
             /\ out.result.mrp = out.page.mrp
             /\ out.result.sale_price = out.page.mrp
       /\ out.page.mrp = 0 =>
             out.result.mrp = out.result.sale_price + 5000

\* C18 witness: an out-of-stock page whose markup carries both prices gave
\* the list price as the sale price.
C18_Witness ==
    /\ out.kind = "extracted"
    /\ out.page.http_ok /\ out.page.oos
    /\ out.page.mrp # 0 /\ out.page.sale # 0
    /\ out.page.sale # out.page.mrp
    /\ out.result.sale_price = out.page.mrp

\* The row was last written by a sweep, not by the tracking request.
ReconciledBySweep(product) ==
    product.last_checked > product.price_history[1].checked_at

\* C19 as stated: under the hourly schedule an item that the sweep of one
\* hour reconciled is selected again by the sweep of the next hour.
C19_Step ==
    ( \/ out'.kind = "sweep_start"
      \/ out'.kind = "sweep_response" /\ out'.status = 200 /\ out'.none ) =>
       \A p \in DOMAIN products :
          ( /\ ReconciledBySweep(products[p])
            /\ products[p].last_checked = now - OneHour ) =>
             /\ out'.kind = "sweep_start"
             /\ p \in Ids(sweeps'[out'.sweep].queue)

C19_Original == [][C19_Step]_vars

\* C20 as stated: after every item's turn, failed or not, the fixed delay
\* runs before the next item of the sweep is fetched.
C20_Step ==
    (ItemStep /\ sweeps'[out'.sweep].queue # << >>) => out'.delayed

C20_Original == [][C20_Step]_vars

C22_Original ==
    out.kind = "picked" =>
       LET matches == <<out.primary>> \o out.fallbacks
           inRange == { i \in DOMAIN matches :
                          matches[i] > 0 /\ matches[i] < 2000000 }
       IN  /\ out.price # 0 => (out.price > 0 /\ out.price < 2000000)
           /\ IF inRange = {} THEN out.price = 0
              ELSE \E i \in inRange :
                      /\ \A j \in inRange : i <= j
                      /\ out.price = matches[i]

\* Both prices are known and the list price is above the sale price.
Discounted(o) == o.mrp > 0 /\ o.sale > 0 /\ o.mrp > o.sale

\* The exact percentage 100 * (list - sale) / list rounded, halves up.
RoundedPercent(mrp, sale) == (200 * (mrp - sale) + mrp) \div (2 * mrp)

\* C23 as stated: with no discount text on an in-stock page the discount is
\* round((list - sale) / list * 100) when both prices are known and list >
\* sale (50000 and 40000 give 20) and 0 otherwise; on an out-of-stock page
\* it is 0.
C23_Original ==
    out.kind = "discount" =>
       /\ out.oos => out.discount = 0
       /\ (~out.oos /\ out.text = 0) =>
             out.discount = IF Discounted(out)
                            THEN RoundedPercent(out.mrp, out.sale) ELSE 0

\* C23 amended: as stated, except that the percentage is computed in double
\* precision, so that a percentage that is exactly a half may be rounded
\* down instead of up (20000 and 17100 give 14, not 15); every other
\* percentage is rounded to the nearest integer.
C23_Amended ==
    out.kind = "discount" =>
       /\ out.oos => out.discount = 0
       /\ (~out.oos /\ out.text = 0 /\ ~Discounted(out)) => out.discount = 0
       /\ (~out.oos /\ out.text = 0 /\ Discounted(out)) =>
             LET rounded == RoundedPercent(out.mrp, out.sale)
                 half == (200 * (out.mrp - out.sale) + out.mrp) % (2 * out.mrp) = 0
             IN  \/ out.discount = rounded
                 \/ half /\ out.discount = rounded - 1
       /\ (out.mrp = 50000 /\ out.sale = 40000 /\ ~out.oos /\ out.text = 0) =>
             out.discount = 20

\* C23 witness: list 50000 and sale 40000 without discount text gave 20.
C23_Witness ==
    /\ out.kind = "discount"
    /\ ~out.oos /\ out.text = 0
    /\ out.mrp = 50000 /\ out.sale = 40000
    /\ out.discount = 20

\* C24 as stated: when two sweeps overlap and both process the same item,
\* the item's history stays append-only: neither sweep's write removes or
\* overwrites an entry, so the stored history before a sweep's turn for the
\* item is a prefix of the stored history after it.
C24_Step ==
    out'.kind \in {"item", "item_selected"} =>
       IsPrefix(products[out'.id].price_history,
                products'[out'.id].price_history)

C24_Original == [][C24_Step]_vars

\* C25 as stated: for an alert the user never switches back on, at most one
\* "price target reached" notification is emitted over its lifetime, across
\* successive and overlapping sweeps: a sweep delivers a notification for
\* an alert only while no notification was delivered for it before, that
\* is, while the alert is still active.
C25_Step ==
    out'.kind = "item" =>
       \A a \in DOMAIN alerts :
          (\E m \in PriceMailsFor(out', a) : m.delivered) => alerts[a].is_active

C25_Original == [][C25_Step]_vars
\* C27: notifications follow only a persisted snapshot.  A turn of the loop
\* that notifies anyone or changes an alert has written the item's row; a
\* turn whose update is rejected records one error entry for the item, is
\* not counted as updated, emits no price or stock notification, selects
\* and deactivates no alert and leaves the row as it was.
C27_Step ==
    ItemStep =>
       LET s == out'.sweep
           id == out'.id
       IN  /\ (out'.mails # {} \/ out'.deactivated # {} \/ alerts' # alerts) =>
                 /\ out'.outcome = "updated"
                 /\ products'[id].sale_price = out'.scraped.sale_price
                 /\ products'[id].price_history = out'.newPriceHistory
                 /\ products'[id].last_checked = now
                 /\ sweeps'[s].updatedCount = sweeps[s].updatedCount + 1
           /\ out'.outcome = "update_failed" =>
                 /\ sweeps'[s].errors =
                       Append(sweeps[s].errors, [what |-> "update", id |-> id])
                 /\ sweeps'[s].updatedCount = sweeps[s].updatedCount
                 /\ out'.mails = {}
                 /\ out'.selected = {}
                 /\ out'.deactivated = {}
                 /\ alerts' = alerts
                 /\ products' = products

C27_NotifyAfterPersist == [][C27_Step]_vars

\* C27 witness: the update of a price drop was rejected while an active
\* alert of the item had its target at or above the extracted price; the
\* alert is still active and nothing was sent.
C27_Witness ==
    /\ out.kind = "item"
    /\ out.outcome = "update_failed"
    /\ ~out.scraped.is_out_of_stock
    /\ HistoryLastPrice(out.stored.price_history) > out.scraped.sale_price
    /\ out.mails = {}
    /\ \E a \in DOMAIN alerts :
         /\ alerts[a].product_id = out.id
         /\ alerts[a].is_active
         /\ alerts[a].target_price >= out.scraped.sale_price
\* C28: in every reachable state every tracked item that is stored as in
\* stock has a non-empty history, and its stored sale price is the price of
\* the last history entry; this holds after tracking and after every
\* reconciliation, saved or not.
C28_SalePriceIsLastEntry ==
    \A p \in DOMAIN products :
       ~products[p].is_out_of_stock =>
          /\ Len(products[p].price_history) > 0
          /\ products[p].sale_price = Last(products[p].price_history).price

\* C28 witness: an item that was stored out of stock with a placeholder
\* price has been reconciled in stock at a price its history did not end
\* with; the row now holds that price and a history that ends with it.
C28_Witness ==
    /\ out.kind = "item"
    /\ out.outcome = "updated"
    /\ out.stored.is_out_of_stock
    /\ ~products[out.id].is_out_of_stock
    /\ out.stored.sale_price # products[out.id].sale_price
    /\ Len(products[out.id].price_history) > Len(out.stored.price_history)
    /\ Last(products[out.id].price_history).price = products[out.id].sale_price
\* C29 as stated: after any interleaving of tracking requests, two
\* concurrent requests for the same URL by the same owner included, no
\* owner has two tracked items with the same URL.
C29_Original ==
    \A p, q \in DOMAIN products :
       (products[p].user_id = products[q].user_id
          /\ products[p].url = products[q].url) => p = q
\* C30 as stated: the email endpoint hands a mail to the mail API only for a
\* request that carries type, product, alert and userEmail and a valid
\* token; a request missing one of the fields gets status 400, a complete
\* request with no token or an invalid one gets status 401, and nothing is
\* sent in both cases; a mail of an accepted request is addressed to the
\* address of the authenticated caller and to no other.
C30_Original ==
    (out.kind = "email_response" /\ out.request.parsed) =>
       LET req == out.request
           complete == /\ req.type # ""
                       /\ req.product
                       /\ req.alert
                       /\ req.userEmail # NoAddress
           valid == req.auth \in Users
       IN  /\ out.mails # {} => (complete /\ valid)
           /\ ~complete => (out.status = 400 /\ out.mails = {})
           /\ (complete /\ ~valid) => (out.status = 401 /\ out.mails = {})
           /\ \A m \in out.mails : m.to = Address(req.auth)
\* An alert that is active while its item is stored in stock at a sale
\* price at or below the alert's target.
Due(a) ==
    /\ a \in DOMAIN alerts
    /\ alerts[a].is_active
    /\ alerts[a].product_id \in DOMAIN products
    /\ ~products[alerts[a].product_id].is_out_of_stock
    /\ products[alerts[a].product_id].sale_price <= alerts[a].target_price

\* A sweep has just fetched an item's page and saved the in-stock
\* extraction.
Reconciled ==
    /\ out.kind = "item"
    /\ out.outcome = "updated"
    /\ ~out.scraped.is_out_of_stock

\* C26 as stated: under hourly sweeps that again and again fetch and save
\* the item, an active alert whose item is in stock at a sale price at or
\* below its target does not stay so for ever: it is eventually triggered
\* (notified and set inactive), also when it was created or switched on
\* while the price was already at or below the target, and when an earlier
\* delivery failed.
C26_Original ==
    ([]<>Reconciled) => \A a \in 1..MaxAlerts : (Due(a) ~> ~Due(a))
====
